---------------------------- MODULE Spec2Model ----------------------------
(***************************************************************************)
(* State-machine model of the steam-id-processor coordination kernel:      *)
(*   - CooldownManager  (src/src/redis-queue-client.js, lines 187-676)     *)
(*   - QueueManager     (src/src/queue-manager.js)                         *)
(*   - RedisQueueClient (src/src/redis-queue-client.js, lines 10-173),     *)
(*     seen through the values its methods return to the QueueManager.     *)
(*                                                                         *)
(* Time is the value Date.now() returns, in milliseconds; it advances by   *)
(* whole minutes.  The applied_at and error_message fields of a cooldown   *)
(* record are not modelled: the code writes them and never reads them.     *)
(***************************************************************************)
EXTENDS Integers, Sequences, FiniteSets, TLC

VARIABLES
    now,              \* Date.now()
    backoffSequence,  \* CooldownManager.backoffSequence (after validation)
    cooldowns,        \* CooldownManager.cooldowns.endpoint_cooldowns (in memory)
    backoffLevels,    \* CooldownManager.backoffLevels (Map endpoint -> level)
    cooldownFile,     \* endpoint_cooldowns.json on disk (its endpoint_cooldowns)
    count429,         \* history: 429 marks of an endpoint since it had no level
    expired429,       \* history: level of the 429 record cleanup last deleted
    writeFailures,    \* writes of the cooldown file that have failed so far
    steamValidator,   \* QueueManager.steamValidator is wired (TRUE) or null
    redisQueueClient, \* QueueManager.redisQueueClient is wired (TRUE) or null
    queueFile,        \* profiles_queue.json on disk: the array of profiles
    queueFileState,   \* the file is "ok", "missing" or "malformed"
    existsDownstream, \* ids the existence probe answers {success, exists} for
    calls,            \* the QueueManager calls that wait at an await, per caller
    lastOp            \* the last call made on the components and what it returned

vars == <<now, backoffSequence, cooldowns, backoffLevels, cooldownFile, count429,
          expired429, writeFailures, steamValidator, redisQueueClient, queueFile,
          queueFileState, existsDownstream, calls, lastOp>>

cooldownVars ==
    <<backoffSequence, cooldowns, backoffLevels, cooldownFile, count429, expired429,
      writeFailures>>
queueVars ==
    <<steamValidator, redisQueueClient, queueFile, queueFileState, existsDownstream, calls>>

-----------------------------------------------------------------------------
(* Bounds of the model *)

MaxTime == 3        \* minutes the clock may advance
MaxWriteFailures == 1  \* failed writes of the cooldown file
MaxBatch == 2       \* items one claimItems response may carry
MaxReentry == 2     \* re-entries of getNextProcessableProfile that are followed

(* Program constants *)

MinuteMs == 60000   \* cooldownMinutes * 60 * 1000; also the unknown-type fallback
PullCount == 5      \* the count getNextProcessableProfile pulls with

-----------------------------------------------------------------------------
(* Small helpers *)

Min(a, b) == IF a <= b THEN a ELSE b

EmptyDoc == [e \in {} |-> 0]

Remove(f, e) == [x \in DOMAIN f \ {e} |-> f[x]]

Put(f, e, v) == [x \in DOMAIN f \cup {e} |-> IF x = e THEN v ELSE f[x]]

-----------------------------------------------------------------------------
(* CooldownManager *)

AllEndpoints ==
    {"friends", "inventory", "steam_level", "animated_avatar",
     "avatar_frame", "mini_profile_background", "profile_background"}

FallbackSequence == <<1, 2, 4, 8, 16, 32, 60, 120, 240, 480>>

\* constructor: an invalid backoffSequence is replaced by the fallback
ValidatedSequence(seq) == IF Len(seq) = 0 THEN FallbackSequence ELSE seq

\* the configured cooldownDurations (milliseconds)
cooldownDurations ==
    [connection_reset |-> 2 * MinuteMs, timeout |-> 1 * MinuteMs,
     dns_failure |-> 3 * MinuteMs]

\* saveCooldowns: the write may fail; the error is logged and swallowed
SaveCooldownsNever(doc, writeOk) == cooldownFile
SaveCooldownsAlways(doc, writeOk) == doc
SaveCooldowns(doc, writeOk) == IF writeOk THEN doc ELSE cooldownFile

\* cleanupExpiredCooldowns: the records that are kept
KeptCooldownsAtDeadline(cd, t) ==
    [e \in {x \in DOMAIN cd : ~(cd[x].cooldown_until < t)} |-> cd[e]]
KeptCooldowns(cd, t) ==
    [e \in {x \in DOMAIN cd : ~(cd[x].cooldown_until <= t)} |-> cd[e]]

\* cleanupExpiredCooldowns: the backoff levels are not touched
LevelsClearedOnExpiry(levels, cd, t) ==
    [e \in {x \in DOMAIN levels :
              ~(x \in DOMAIN cd /\ cd[x].cooldown_until <= t)} |-> levels[e]]
LevelsAfterCleanup(levels, cd, t) == levels

\* isEndpointAvailable
IsEndpointAvailable(cd, e, t) ==
    IF e \notin DOMAIN cd THEN TRUE ELSE cd[e].cooldown_until <= t

\* this.backoffLevels.get(endpoint) || 0
CurrentLevel(levels, e) == IF e \in DOMAIN levels THEN levels[e] ELSE 0

\* Math.min(currentLevel + 1, this.backoffSequence.length - 1)
NewLevelWrapping(currentLevel, seq) == (currentLevel + 1) % Len(seq)
NewLevel(currentLevel, seq) == Min(currentLevel + 1, Len(seq) - 1)

\* the record markEndpointCooldown writes for a 429
Record429(level, seq, t) ==
    [cooldown_until |-> t + seq[level + 1] * 60 * 1000,
     reason |-> "429",
     backoff_level |-> level,
     duration_minutes |-> seq[level + 1]]

\* the fixed duration of the other error types
FixedDurationByKey(errorType) ==
    IF errorType \in DOMAIN cooldownDurations THEN cooldownDurations[errorType]
    ELSE 60000
FixedDuration(errorType) ==
    IF errorType = "connection_error" THEN cooldownDurations.connection_reset
    ELSE IF errorType = "timeout" THEN cooldownDurations.timeout
    ELSE IF errorType = "dns_failure" THEN cooldownDurations.dns_failure
    ELSE 60000

\* the record markEndpointCooldown writes for the other error types
RecordFixed(errorType, t) ==
    [cooldown_until |-> t + FixedDuration(errorType),
     reason |-> errorType,
     duration_used |-> FixedDuration(errorType)]

\* resetBackoffOnSuccess: the backoff levels afterwards
LevelsAfterReset(levels, e) == Remove(levels, e)

\* resetBackoffOnSuccess: the record is deleted when it is a 429 cooldown
ResetDeletesAnyRecord(cd, e) == e \in DOMAIN cd
ResetDeletesRecord(cd, e) == e \in DOMAIN cd /\ cd[e].reason = "429"

\* initializeBackoffLevelsFromFile
LevelsNotRehydrated(doc) == EmptyDoc
LevelsFromFile(doc) ==
    [e \in {x \in DOMAIN doc : doc[x].reason = "429"
                                 /\ "backoff_level" \in DOMAIN doc[x]}
       |-> doc[e].backoff_level]

\* history: 429 marks since the endpoint had no level, saturating where the
\* expected level min(k - 1, last) no longer depends on k
CountAfter429(k, seq) == IF k < 0 THEN k ELSE Min(k + 1, Len(seq) + 1)

-----------------------------------------------------------------------------
(* CooldownManager: the operations *)

\* endpoints and error types the calls are made with
Endpoints == {"friends", "inventory"}

\* the callers whose QueueManager calls may overlap, and their calls before
\* any of them has started
Callers == {"driver", "external", "remover", "sweeper"}

NoCalls == [p \in Callers |-> [pc |-> "idle"]]

ErrorTypes == {"429", "timeout"}

\* the fault specification: one endpoint, every error type, failing writes
FaultEndpoints == {"friends"}

AllErrorTypes == {"429", "connection_error", "timeout", "dns_failure", "unknown"}

ConfiguredSequences == {<<1>>, <<1, 2>>, <<1, 2, 4>>}

NoHistory == [e \in Endpoints |-> 0]

NoExpiry == [e \in Endpoints |-> -1]

\* a write of the cooldown file either succeeds or fails
WriteOutcomes == {TRUE} \cup (IF writeFailures < MaxWriteFailures THEN {FALSE} ELSE {})

Failed(saved, writeOk) == IF saved /\ ~writeOk THEN writeFailures + 1 ELSE writeFailures

\* markEndpointCooldown(endpoint, errorType, errorMessage): its effect on
\* the CooldownManager
MarkEffect(e, errorType, writeOk) ==
    /\ IF errorType = "429"
       THEN LET currentLevel == CurrentLevel(backoffLevels, e)
                newLevel == NewLevel(currentLevel, backoffSequence)
                doc == Put(cooldowns, e, Record429(newLevel, backoffSequence, now))
            IN  /\ backoffLevels' = Put(backoffLevels, e, newLevel)
                /\ cooldowns' = doc
                /\ cooldownFile' = SaveCooldowns(doc, writeOk)
                /\ count429' = [x \in DOMAIN count429 |->
                                  IF x = e THEN CountAfter429(count429[x], backoffSequence)
                                  ELSE count429[x]]
       ELSE LET doc == Put(cooldowns, e, RecordFixed(errorType, now))
            IN  /\ cooldowns' = doc
                /\ cooldownFile' = SaveCooldowns(doc, writeOk)
                /\ UNCHANGED <<backoffLevels, count429>>
    /\ expired429' = IF errorType = "429"
                     THEN [x \in DOMAIN expired429 |->
                             IF x = e THEN -1 ELSE expired429[x]]
                     ELSE expired429
    /\ writeFailures' = Failed(TRUE, writeOk)
    /\ UNCHANGED backoffSequence

\* markEndpointCooldown(endpoint, errorType, errorMessage)
MarkEndpointCooldown(e, errorType, writeOk) ==
    /\ MarkEffect(e, errorType, writeOk)
    /\ lastOp' = [op |-> "mark", e |-> e, type |-> errorType, writeOk |-> writeOk,
                  prev |-> CurrentLevel(backoffLevels, e), expired |-> expired429[e]]
    /\ UNCHANGED <<now, queueVars>>

\* error.message: the markers the classifier looks for that it contains
Markers ==
    {"socket disconnected", "socket hang up", "ECONNRESET", "ECONNREFUSED",
     "ETIMEDOUT", "EHOSTUNREACH", "timeout", "certificate", "SSL", "TLS",
     "ENOTFOUND"}

\* errorMsg.includes(marker)
Includes(errorMsg, marker) == marker \in errorMsg

\* isConnectionError(error)
IsConnectionError(errorMsg) == \E m \in Markers : Includes(errorMsg, m)

\* categorizeConnectionError(error)
CategorizeTimeoutFirst(errorMsg) ==
    IF Includes(errorMsg, "timeout") \/ Includes(errorMsg, "ETIMEDOUT")
    THEN "timeout"
    ELSE IF Includes(errorMsg, "ENOTFOUND") \/ Includes(errorMsg, "EHOSTUNREACH")
    THEN "dns_failure"
    ELSE "connection_error"
CategorizeConnectionError(errorMsg) ==
    IF Includes(errorMsg, "ENOTFOUND") \/ Includes(errorMsg, "EHOSTUNREACH")
    THEN "dns_failure"
    ELSE IF Includes(errorMsg, "timeout") \/ Includes(errorMsg, "ETIMEDOUT")
    THEN "timeout"
    ELSE "connection_error"

\* handleRequestError(error, axiosConfig): connectionInfo is "none" or the
\* endpointName it carries, status429 says error.response.status === 429
HandleRequestError(connectionInfo, status429, errorMsg, writeOk) ==
    /\ IF connectionInfo = "none"
       THEN /\ lastOp' = [op |-> "handle", info |-> connectionInfo,
                          status429 |-> status429, msg |-> errorMsg,
                          ret |-> "error", errorType |-> "none"]
            /\ UNCHANGED cooldownVars
       ELSE IF status429
       THEN /\ MarkEffect(connectionInfo, "429", writeOk)
            /\ lastOp' = [op |-> "handle", info |-> connectionInfo,
                          status429 |-> status429, msg |-> errorMsg,
                          ret |-> "rateLimited", errorType |-> "429"]
       ELSE IF IsConnectionError(errorMsg)
       THEN /\ MarkEffect(connectionInfo, CategorizeConnectionError(errorMsg), writeOk)
            /\ lastOp' = [op |-> "handle", info |-> connectionInfo,
                          status429 |-> status429, msg |-> errorMsg,
                          ret |-> "connectionError",
                          errorType |-> CategorizeConnectionError(errorMsg)]
       ELSE /\ lastOp' = [op |-> "handle", info |-> connectionInfo,
                          status429 |-> status429, msg |-> errorMsg,
                          ret |-> "error", errorType |-> "none"]
            /\ UNCHANGED cooldownVars
    /\ UNCHANGED <<now, queueVars>>

\* resetBackoffOnSuccess(endpoint)
ResetBackoffOnSuccess(e, writeOk) ==
    /\ backoffLevels' = IF e \in DOMAIN backoffLevels
                        THEN LevelsAfterReset(backoffLevels, e) ELSE backoffLevels
    /\ IF ResetDeletesRecord(cooldowns, e)
       THEN /\ cooldowns' = Remove(cooldowns, e)
            /\ cooldownFile' = SaveCooldowns(Remove(cooldowns, e), writeOk)
       ELSE UNCHANGED <<cooldowns, cooldownFile>>
    /\ count429' = [count429 EXCEPT ![e] = 0]
    /\ expired429' = [expired429 EXCEPT ![e] = -1]
    /\ writeFailures' = Failed(ResetDeletesRecord(cooldowns, e), writeOk)
    /\ lastOp' = [op |-> "reset", e |-> e, had |-> e \in DOMAIN backoffLevels,
                  writeOk |-> writeOk \/ ~ResetDeletesRecord(cooldowns, e)]
    /\ UNCHANGED <<now, backoffSequence, queueVars>>

\* cleanupExpiredCooldowns(): its effect on the CooldownManager; prevRet in
\* the record of the call is what the call before returned, when that call
\* was a cleanup too
CleanupCount == Cardinality(DOMAIN cooldowns) - Cardinality(DOMAIN KeptCooldowns(cooldowns, now))

CleanupEffect(writeOk) ==
    /\ cooldowns' = KeptCooldowns(cooldowns, now)
    /\ cooldownFile' = IF CleanupCount > 0
                       THEN SaveCooldowns(KeptCooldowns(cooldowns, now), writeOk)
                       ELSE cooldownFile
    /\ backoffLevels' = LevelsAfterCleanup(backoffLevels, cooldowns, now)
    /\ expired429' =
         [e \in DOMAIN expired429 |->
            IF e \in DOMAIN cooldowns /\ e \notin DOMAIN KeptCooldowns(cooldowns, now)
               /\ cooldowns[e].reason = "429"
            THEN cooldowns[e].backoff_level ELSE expired429[e]]
    /\ writeFailures' = Failed(CleanupCount > 0, writeOk)
    /\ UNCHANGED <<backoffSequence, count429>>

CleanupExpiredCooldowns(writeOk) ==
    /\ CleanupEffect(writeOk)
    /\ lastOp' = [op |-> "cleanup", ret |-> CleanupCount, saved |-> CleanupCount > 0,
                  writeOk |-> writeOk \/ CleanupCount = 0,
                  prevRet |-> IF lastOp.op = "cleanup" THEN lastOp.ret ELSE -1]
    /\ UNCHANGED <<now, queueVars>>

\* isEndpointInCooldown(endpoint): cleanup, then !isEndpointAvailable
IsEndpointInCooldown(e, writeOk) ==
    /\ CleanupEffect(writeOk)
    /\ lastOp' = [op |-> "inCooldown", e |-> e,
                  ret |-> ~IsEndpointAvailable(KeptCooldowns(cooldowns, now), e, now)]
    /\ UNCHANGED <<now, queueVars>>

\* getConnectionStatus(): cleanup, then the summary of the seven endpoints
EndpointSummary(cd, t) ==
    [e \in AllEndpoints |->
       [availableConnections |-> IF IsEndpointAvailable(cd, e, t) THEN 1 ELSE 0,
        totalConnections |-> 1,
        nextAvailableIn |-> IF IsEndpointAvailable(cd, e, t) THEN 0
                            ELSE cd[e].cooldown_until - t]]

GetConnectionStatus(writeOk) ==
    /\ CleanupEffect(writeOk)
    /\ lastOp' = [op |-> "status",
                  ret |-> EndpointSummary(KeptCooldowns(cooldowns, now), now)]
    /\ UNCHANGED <<now, queueVars>>

\* the process stops and a new CooldownManager is constructed on the same
\* directory with the same configuration: initializeCooldowns, then
\* initializeBackoffLevelsFromFile
Restart ==
    /\ cooldowns' = cooldownFile
    /\ backoffLevels' = LevelsFromFile(cooldownFile)
    /\ count429' = [e \in DOMAIN count429 |->
                      IF e \in DOMAIN LevelsFromFile(cooldownFile) THEN -1 ELSE 0]
    /\ expired429' = NoExpiry
    /\ lastOp' = [op |-> "restart", levelsBefore |-> backoffLevels]
    /\ UNCHANGED <<now, backoffSequence, cooldownFile, writeFailures, queueVars>>

\* the clock advances
Tick ==
    /\ now < MaxTime * MinuteMs
    /\ now' = now + MinuteMs
    /\ lastOp' = [op |-> "tick"]
    /\ UNCHANGED <<cooldownVars, queueVars>>

-----------------------------------------------------------------------------
(* The cooldown controller on its own: a fresh configuration directory *)

InitCooldown ==
    /\ now = 0
    /\ backoffSequence \in {ValidatedSequence(s) : s \in ConfiguredSequences}
    /\ cooldowns = EmptyDoc
    /\ backoffLevels = EmptyDoc
    /\ cooldownFile = EmptyDoc
    /\ count429 = NoHistory
    /\ expired429 = NoExpiry
    /\ writeFailures = 0
    /\ steamValidator = TRUE
    /\ redisQueueClient = TRUE
    /\ queueFile = << >>
    /\ queueFileState = "ok"
    /\ existsDownstream = {}
    /\ calls = NoCalls
    /\ lastOp = [op |-> "init"]

NextCooldown ==
    \/ \E e \in Endpoints, t \in ErrorTypes : MarkEndpointCooldown(e, t, TRUE)
    \/ \E e \in Endpoints : ResetBackoffOnSuccess(e, TRUE)
    \/ CleanupExpiredCooldowns(TRUE)
    \/ \E e \in Endpoints : IsEndpointInCooldown(e, TRUE)
    \/ GetConnectionStatus(TRUE)
    \/ Restart
    \/ Tick

\* two endpoints, every write of the cooldown file succeeds
SpecCooldown == InitCooldown /\ [][NextCooldown]_vars

NextFaults ==
    \/ \E e \in FaultEndpoints, t \in AllErrorTypes, w \in WriteOutcomes :
          MarkEndpointCooldown(e, t, w)
    \/ \E e \in FaultEndpoints, w \in WriteOutcomes : ResetBackoffOnSuccess(e, w)
    \/ \E w \in WriteOutcomes : CleanupExpiredCooldowns(w)
    \/ \E e \in FaultEndpoints, w \in WriteOutcomes : IsEndpointInCooldown(e, w)
    \/ \E w \in WriteOutcomes : GetConnectionStatus(w)
    \/ Restart
    \/ Tick

\* one endpoint, every error type, writes of the cooldown file may fail
SpecFaults == InitCooldown /\ [][NextFaults]_vars

NextMarks ==
    \/ \E e \in Endpoints, t \in AllErrorTypes : MarkEndpointCooldown(e, t, TRUE)
    \/ CleanupExpiredCooldowns(TRUE)
    \/ Tick

\* two endpoints, every error type, no reset and no restart
SpecMarks == InitCooldown /\ [][NextMarks]_vars

\* the error messages handleRequestError is called with: no marker, each
\* single marker, a text the classifier does not look for, and pairs of
\* markers of different kinds
ErrorMessages ==
    {{}, {"EPIPE"}} \cup {{m} : m \in Markers}
    \cup {{"ENOTFOUND", "timeout"}, {"EHOSTUNREACH", "ETIMEDOUT"},
          {"ENOTFOUND", "ECONNRESET"}, {"ETIMEDOUT", "ECONNREFUSED"},
          {"timeout", "socket hang up"}, {"EPIPE", "TLS"}}

ErrorContexts == {"none", "friends"}

NextErrors ==
    \/ \E c \in ErrorContexts, s \in BOOLEAN, m \in ErrorMessages :
          HandleRequestError(c, s, m, TRUE)
    \/ Tick

\* the classifier of upstream errors on a fresh CooldownManager
SpecErrors == InitCooldown /\ [][NextErrors]_vars

-----------------------------------------------------------------------------
(* RedisQueueClient *)

\* what the queue service answers to one request: the request fails on the
\* network, times out, or a response arrives with a status code and a body;
\* the body is not JSON ("garbage"), the JSON null, or an object with a
\* success field and, when it has a payload, the fields items, stats and
\* released_count
Responses ==
    {[net |-> n, status |-> 0, kind |-> "none", success |-> FALSE, payload |-> FALSE] :
       n \in {"error", "timeout"}}
    \cup {[net |-> "ok", status |-> st, kind |-> k, success |-> FALSE, payload |-> FALSE] :
            st \in {200, 201, 404, 500}, k \in {"garbage", "null"}}
    \cup {[net |-> "ok", status |-> st, kind |-> "object", success |-> su, payload |-> pl] :
            st \in {200, 201, 404, 500}, su \in BOOLEAN, pl \in BOOLEAN}

\* the payload of a success response
ResponseItems == <<[id |-> "A", username |-> "alice"]>>

ResponseReleasedCount == 2

\* makeRequest: TRUE when the promise resolves with the parsed body, FALSE
\* when it rejects
MakeRequestAnyStatus(response) ==
    /\ response.net = "ok"
    /\ response.kind = "object"
    /\ response.success
MakeRequest(response) ==
    /\ response.net = "ok"
    /\ response.kind = "object"
    /\ response.status = 200
    /\ response.success

\* claimItems: response.items, the empty list when the request rejects or
\* reading response.items.length throws
ClaimItems(response) ==
    IF MakeRequest(response) /\ response.payload THEN ResponseItems ELSE << >>

\* completeItems
CompleteItems(response) == MakeRequest(response)

\* releaseItems
ReleaseItems(response) == MakeRequest(response)

\* getStats: response.stats ("undefined" when the body has none), null
GetStats(response) ==
    IF MakeRequest(response)
    THEN IF response.payload THEN "stats" ELSE "undefined"
    ELSE "null"

\* releaseInstance: response.released_count || 0
ReleaseInstance(response) ==
    IF MakeRequest(response) /\ response.payload THEN ResponseReleasedCount ELSE 0

\* one call of a method of the client, the service answering with response
ClientCall(method, response) ==
    /\ lastOp' = [op |-> "client", method |-> method, response |-> response,
                  ret |-> CASE method = "claimItems" -> ClaimItems(response)
                            [] method = "completeItems" -> CompleteItems(response)
                            [] method = "releaseItems" -> ReleaseItems(response)
                            [] method = "getStats" -> GetStats(response)
                            [] method = "releaseInstance" -> ReleaseInstance(response)]
    /\ UNCHANGED <<now, cooldownVars, queueVars>>

ClientMethods ==
    {"claimItems", "completeItems", "releaseItems", "getStats", "releaseInstance"}

NextClient == \E m \in ClientMethods, r \in Responses : ClientCall(m, r)

\* the queue client against every answer of the service
SpecClient == InitCooldown /\ [][NextClient]_vars

-----------------------------------------------------------------------------
(* QueueManager *)

CheckNames ==
    {"animated_avatar", "avatar_frame", "mini_profile_background",
     "profile_background", "steam_level", "friends", "csgo_inventory"}

validStatuses == {"to_check", "passed", "failed", "deferred"}

\* the profile addProfileToQueue creates
NewProfile(steamId, username, t) ==
    [steam_id |-> steamId,
     username |-> IF username = "" THEN "Professor" ELSE username,
     timestamp |-> t,
     checks |-> [c \in CheckNames |-> "to_check"]]

\* profiles.findIndex(p => p.steam_id === steamId), 0 when there is none
FindIndex(profiles, steamId) ==
    IF \E i \in 1..Len(profiles) : profiles[i].steam_id = steamId
    THEN CHOOSE i \in 1..Len(profiles) :
           /\ profiles[i].steam_id = steamId
           /\ \A j \in 1..(i - 1) : profiles[j].steam_id # steamId
    ELSE 0

\* the answer of apiService.checkSteamIdExists, "none" without an apiService
ProbeAnswer(steamId, useProbe, probeOk) ==
    IF ~useProbe THEN "none"
    ELSE IF ~probeOk THEN "failed"
    ELSE IF steamId \in existsDownstream THEN "exists" ELSE "absent"

\* addProfileToQueue(steamId, username, apiService): what it returns
\* ("existing": the profile found, "null", "profile": the new profile,
\* "throw"), the file afterwards, whether checkSteamIdExists was called and
\* whether the write of the file was attempted and failed
\* (first the same with the failed write swallowed)
AddProfileSwallowingFailure(profiles, steamId, username, probe, writeOk, t) ==
    IF FindIndex(profiles, steamId) # 0
    THEN [ret |-> "existing", profiles |-> profiles, probed |-> FALSE,
          writeFailed |-> FALSE]
    ELSE IF probe = "exists"
    THEN [ret |-> "null", profiles |-> profiles, probed |-> TRUE,
          writeFailed |-> FALSE]
    ELSE [ret |-> "profile",
          profiles |-> IF writeOk
                       THEN Append(profiles, NewProfile(steamId, username, t))
                       ELSE profiles,
          probed |-> probe # "none", writeFailed |-> ~writeOk]
\* the same, an unanswered probe treated as the verdict "exists"
AddProfileSuppressedOnProbeFailure(profiles, steamId, username, probe, writeOk, t) ==
    IF FindIndex(profiles, steamId) # 0
    THEN [ret |-> "existing", profiles |-> profiles, probed |-> FALSE,
          writeFailed |-> FALSE]
    ELSE IF probe \in {"exists", "failed"}
    THEN [ret |-> "null", profiles |-> profiles, probed |-> TRUE,
          writeFailed |-> FALSE]
    ELSE IF writeOk
    THEN [ret |-> "profile",
          profiles |-> Append(profiles, NewProfile(steamId, username, t)),
          probed |-> probe # "none", writeFailed |-> FALSE]
    ELSE [ret |-> "throw", profiles |-> profiles, probed |-> probe # "none",
          writeFailed |-> TRUE]
\* the same, without the lookup of the id in the file
AddProfileWithoutLookup(profiles, steamId, username, probe, writeOk, t) ==
    IF probe = "exists"
    THEN [ret |-> "null", profiles |-> profiles, probed |-> TRUE,
          writeFailed |-> FALSE]
    ELSE IF writeOk
    THEN [ret |-> "profile",
          profiles |-> Append(profiles, NewProfile(steamId, username, t)),
          probed |-> probe # "none", writeFailed |-> FALSE]
    ELSE [ret |-> "throw", profiles |-> profiles, probed |-> probe # "none",
          writeFailed |-> TRUE]
\* addProfileToQueue as the code has it
AddProfileToQueue(profiles, steamId, username, probe, writeOk, t) ==
    IF FindIndex(profiles, steamId) # 0
    THEN [ret |-> "existing", profiles |-> profiles, probed |-> FALSE,
          writeFailed |-> FALSE]
    ELSE IF probe = "exists"
    THEN [ret |-> "null", profiles |-> profiles, probed |-> TRUE,
          writeFailed |-> FALSE]
    ELSE IF writeOk
    THEN [ret |-> "profile",
          profiles |-> Append(profiles, NewProfile(steamId, username, t)),
          probed |-> probe # "none", writeFailed |-> FALSE]
    ELSE [ret |-> "throw", profiles |-> profiles, probed |-> probe # "none",
          writeFailed |-> TRUE]

\* readQueueProfiles(): the array in the file, the empty array when the file
\* cannot be read or parsed or does not hold an array; while the file is
\* missing or malformed, queueFile keeps the array it held before
ReadQueueProfilesLastContent == queueFile
ReadQueueProfiles == IF queueFileState = "ok" THEN queueFile ELSE << >>

\* getQueuedProfilesSync(): the same with a synchronous read
GetQueuedProfilesSync == IF queueFileState = "ok" THEN queueFile ELSE << >>

\* writeQueueProfiles(profiles): a write that succeeds leaves a file that
\* holds an array, a call that does not write leaves the file as it is
StateAfterWrite(wrote) == IF wrote THEN "ok" ELSE queueFileState

\* isHealthyToClaimWork, check 1
HasDeferredChecks(profiles) ==
    \E i \in 1..Len(profiles) :
      \E c \in DOMAIN profiles[i].checks : profiles[i].checks[c] = "deferred"

\* steamValidator.getCooldownStatus(): the connection status of the
\* CooldownManager (after its cleanup)
GetCooldownStatus(cd, t) == EndpointSummary(KeptCooldowns(cd, t), t)

\* isHealthyToClaimWork, check 2
HasAllEndpointsHealthy(summary) ==
    \A e \in DOMAIN summary : summary[e].availableConnections > 0
HasHealthyEndpoint(summary) ==
    \E e \in DOMAIN summary : summary[e].availableConnections > 0

\* isHealthyToClaimWork(); statusThrows: getCooldownStatus raises
IsHealthyIgnoringDeferred(profiles, wired, statusThrows, summary) ==
    IF ~wired THEN TRUE
    ELSE IF statusThrows THEN FALSE
    ELSE HasHealthyEndpoint(summary)
IsHealthyToClaimWork(profiles, wired, statusThrows, summary) ==
    IF HasDeferredChecks(profiles) THEN FALSE
    ELSE IF ~wired THEN TRUE
    ELSE IF statusThrows THEN FALSE
    ELSE HasHealthyEndpoint(summary)

\* isHealthyToClaimWork() reaches getCooldownStatus and it returns: the
\* CooldownManager cleans up its expired cooldowns
StatusQueried(profiles, wired, statusThrows) ==
    ~HasDeferredChecks(profiles) /\ wired /\ ~statusThrows

HealthCheckEffect(statusThrows, cdWriteOk) ==
    IF StatusQueried(GetQueuedProfilesSync, steamValidator, statusThrows)
    THEN CleanupEffect(cdWriteOk)
    ELSE UNCHANGED cooldownVars

\* removeProfileFromQueue: the ids completeItems is called with, after the
\* write of the filtered array; wired: this.redisQueueClient is set
CompletedItemsWhenWired(steamId, saveSuccess, wired) ==
    IF wired THEN <<steamId>> ELSE << >>
CompletedItems(steamId, saveSuccess, wired) ==
    IF saveSuccess /\ wired THEN <<steamId>> ELSE << >>

\* removeProfileFromQueue: profiles.filter(p => p.steam_id !== steamId)
FilteredFromIndex(profiles, steamId) ==
    SubSeq(profiles, 1, FindIndex(profiles, steamId) - 1)
FilteredProfiles(profiles, steamId) ==
    SelectSeq(profiles, LAMBDA p : p.steam_id # steamId)

\* convertDeferredChecksToToCheck: the checks of one profile after the sweep
ConvertedChecks(checks) ==
    [c \in DOMAIN checks |-> IF checks[c] = "deferred" THEN "to_check" ELSE checks[c]]

\* convertDeferredChecksToToCheck: the profiles after the sweep
ConvertedFirstOnly(profiles) ==
    [i \in 1..Len(profiles) |->
       [profiles[i] EXCEPT !.checks = IF i = 1 THEN ConvertedChecks(@) ELSE @]]
ConvertedProfiles(profiles) ==
    [i \in 1..Len(profiles) |-> [profiles[i] EXCEPT !.checks = ConvertedChecks(@)]]

\* convertDeferredChecksToToCheck: conversionsCount
ConversionsCountPerProfile(profiles) ==
    Cardinality({i \in 1..Len(profiles) :
                   \E c \in DOMAIN profiles[i].checks : profiles[i].checks[c] = "deferred"})
ConversionsCount(profiles) ==
    Cardinality({<<i, c>> \in (1..Len(profiles)) \X UNION {DOMAIN profiles[j].checks : j \in 1..Len(profiles)} :
                   c \in DOMAIN profiles[i].checks /\ profiles[i].checks[c] = "deferred"})

\* convertDeferredChecksToToCheck: profilesAffected
ProfilesAffected(profiles) ==
    Cardinality({i \in 1..Len(profiles) :
                   \E c \in DOMAIN profiles[i].checks : profiles[i].checks[c] = "deferred"})

\* getNextProcessableProfile: hasToCheck and hasDeferred of one profile
HasToCheck(profile) ==
    \E c \in DOMAIN profile.checks : profile.checks[c] = "to_check"

HasDeferred(profile) ==
    \E c \in DOMAIN profile.checks : profile.checks[c] = "deferred"

\* getNextProcessableProfile, first loop: the position of the first profile
\* that has a to_check check or has neither to_check nor deferred, 0 if none
FirstPass(profiles) ==
    LET hit(i) == \/ HasToCheck(profiles[i])
                  \/ ~HasToCheck(profiles[i]) /\ ~HasDeferred(profiles[i])
    IN  IF \E i \in 1..Len(profiles) : hit(i)
        THEN CHOOSE i \in 1..Len(profiles) :
               hit(i) /\ \A j \in 1..(i - 1) : ~hit(j)
        ELSE 0

\* getNextProcessableProfile, second loop: the first profile with a deferred
\* check, 0 if none
SecondPass(profiles) ==
    IF \E i \in 1..Len(profiles) : HasDeferred(profiles[i])
    THEN CHOOSE i \in 1..Len(profiles) :
           HasDeferred(profiles[i]) /\ \A j \in 1..(i - 1) : ~HasDeferred(profiles[j])
    ELSE 0

\* getNextProcessableProfile on the profiles read: the position of the
\* profile returned, 0 for null
FirstProfile(profiles) == IF Len(profiles) = 0 THEN 0 ELSE 1
NextProcessableIndex(profiles) ==
    IF Len(profiles) = 0 THEN 0
    ELSE IF FirstPass(profiles) # 0 THEN FirstPass(profiles)
    ELSE SecondPass(profiles)

\* pullFromRedisQueue: the loop over the claimed items, from item i on; failed
\* holds the positions of the items whose write of the queue file fails
RECURSIVE PullLoop(_, _, _, _, _)
PullLoop(profiles, items, failed, t, i) ==
    IF i > Len(items)
    THEN [profiles |-> profiles, outcomes |-> << >>, released |-> << >>, added |-> 0,
          failedAt |-> {}]
    ELSE LET r == AddProfileToQueue(profiles, items[i].id, items[i].username,
                                     "none", i \notin failed, t)
             rest == PullLoop(r.profiles, items, failed, t, i + 1)
         IN  [profiles |-> rest.profiles,
              outcomes |-> <<r.ret>> \o rest.outcomes,
              released |-> (IF r.ret \in {"existing", "profile"}
                            THEN << >> ELSE <<items[i].id>>) \o rest.released,
              added |-> (IF r.ret \in {"existing", "profile"} THEN 1 ELSE 0)
                        + rest.added,
              failedAt |-> (IF r.writeFailed THEN {i} ELSE {}) \cup rest.failedAt]

\* pullFromRedisQueue: some addProfileToQueue of the loop wrote the file
Wrote(outcomes) == \E i \in 1..Len(outcomes) : outcomes[i] = "profile"

-----------------------------------------------------------------------------
(* QueueManager: the operations *)

Ids == {"A", "B"}

\* the items the queue service may hand out
ClaimableItems ==
    {[id |-> "A", username |-> "alice"], [id |-> "B", username |-> ""]}

Batches == UNION {[1..n -> ClaimableItems] : n \in 0..MaxBatch}

UpdatedChecks == {"friends"}

Statuses == validStatuses \cup {"bogus"}

\* addProfileToQueue(steamId, username, apiService) called on its own
AddProfile(item, useProbe, probeOk, writeOk) ==
    LET r == AddProfileToQueue(ReadQueueProfiles, item.id, item.username,
                               ProbeAnswer(item.id, useProbe, probeOk), writeOk, now)
    IN  /\ queueFile' = (IF r.ret = "profile" THEN r.profiles ELSE queueFile)
        /\ queueFileState' = StateAfterWrite(r.ret = "profile")
        /\ lastOp' = [op |-> "add", id |-> item.id, ret |-> r.ret,
                      probe |-> ProbeAnswer(item.id, useProbe, probeOk),
                      probed |-> r.probed, writeFailed |-> r.writeFailed,
                      recreated |-> queueFileState # "ok" /\ r.ret = "profile"]
        /\ UNCHANGED <<now, cooldownVars, steamValidator, redisQueueClient,
                       existsDownstream, calls>>

\* updateProfileCheck(steamId, checkName, status)
UpdateProfileCheck(steamId, checkName, status, writeOk) ==
    LET i == FindIndex(ReadQueueProfiles, steamId)
        ok == i # 0 /\ status \in validStatuses /\ writeOk
    IN  /\ queueFile' =
              IF ok
              THEN [ReadQueueProfiles EXCEPT ![i].checks = Put(@, checkName, status)]
              ELSE queueFile
        /\ queueFileState' = StateAfterWrite(ok)
        /\ lastOp' = [op |-> "update", id |-> steamId, check |-> checkName,
                      status |-> status, ret |-> ok,
                      writeFailed |-> i # 0 /\ status \in validStatuses /\ ~writeOk]
        /\ UNCHANGED <<now, cooldownVars, steamValidator, redisQueueClient,
                       existsDownstream, calls>>

\* removeProfileFromQueue(steamId); completeOk: the request completeItems
\* makes succeeds
RemoveProfileFromQueue(steamId, writeOk, completeOk) ==
    LET found == Len(FilteredProfiles(ReadQueueProfiles, steamId)) < Len(ReadQueueProfiles)
        ok == found /\ writeOk
    IN  /\ queueFile' = (IF ok THEN FilteredProfiles(ReadQueueProfiles, steamId)
                          ELSE queueFile)
        /\ queueFileState' = StateAfterWrite(ok)
        /\ lastOp' = [op |-> "remove", id |-> steamId, ret |-> ok,
                      completed |-> CompletedItems(steamId, ok, redisQueueClient),
                      completeOk |-> ~(ok /\ redisQueueClient) \/ completeOk,
                      writeFailed |-> found /\ ~writeOk]
        /\ UNCHANGED <<now, cooldownVars, steamValidator, redisQueueClient,
                       existsDownstream, calls>>

\* convertDeferredChecksToToCheck()
ConvertDeferredChecksToToCheck(writeOk) ==
    LET conversionsCount == ConversionsCount(ReadQueueProfiles)
        saved == conversionsCount > 0
    IN  /\ queueFile' = IF saved /\ writeOk THEN ConvertedProfiles(ReadQueueProfiles)
                         ELSE queueFile
        /\ queueFileState' = StateAfterWrite(saved /\ writeOk)
        /\ lastOp' = [op |-> "convert", writeFailed |-> saved /\ ~writeOk,
                      second |-> lastOp.op = "convert" /\ ~lastOp.writeFailed,
                      ret |-> IF saved /\ ~writeOk
                              THEN [conversions |-> 0, profilesAffected |-> 0]
                              ELSE [conversions |-> conversionsCount,
                                    profilesAffected |-> ProfilesAffected(ReadQueueProfiles)]]
        /\ UNCHANGED <<now, cooldownVars, steamValidator, redisQueueClient,
                       existsDownstream, calls>>

\* isHealthyToClaimWork() called on its own
CheckHealth(statusThrows, cdWriteOk) ==
    /\ HealthCheckEffect(statusThrows, cdWriteOk)
    /\ lastOp' = [op |-> "isHealthy",
                  threw |-> ~HasDeferredChecks(GetQueuedProfilesSync) /\ steamValidator
                            /\ statusThrows,
                  ret |-> IsHealthyToClaimWork(GetQueuedProfilesSync, steamValidator, statusThrows,
                                               GetCooldownStatus(cooldowns, now))]
    /\ UNCHANGED <<now, queueVars>>

\* pullFromRedisQueue(count): items is what claimItems returns when it is
\* called (the empty list when the request fails)
PullFromRedisQueue(items, failed, statusThrows, cdWriteOk) ==
    IF ~redisQueueClient
    THEN /\ lastOp' = [op |-> "pull", claimed |-> FALSE, threw |-> FALSE, ret |-> 0,
                       items |-> << >>, outcomes |-> << >>, released |-> << >>,
                       failedAt |-> {}]
         /\ UNCHANGED <<now, cooldownVars, queueVars>>
    ELSE LET healthy == IsHealthyToClaimWork(GetQueuedProfilesSync, steamValidator, statusThrows,
                                             GetCooldownStatus(cooldowns, now))
             r == PullLoop(ReadQueueProfiles, items, failed, now, 1)
         IN  /\ HealthCheckEffect(statusThrows, cdWriteOk)
             /\ queueFile' = (IF healthy /\ Wrote(r.outcomes) THEN r.profiles
                               ELSE queueFile)
             /\ queueFileState' = StateAfterWrite(healthy /\ Wrote(r.outcomes))
             /\ lastOp' =
                  IF healthy
                  THEN [op |-> "pull", claimed |-> TRUE, threw |-> FALSE,
                        ret |-> r.added, items |-> items, outcomes |-> r.outcomes,
                        released |-> r.released, failedAt |-> r.failedAt]
                  ELSE [op |-> "pull", claimed |-> FALSE,
                        threw |-> ~HasDeferredChecks(GetQueuedProfilesSync) /\ steamValidator
                                  /\ statusThrows,
                        ret |-> 0, items |-> << >>, outcomes |-> << >>,
                        released |-> << >>, failedAt |-> {}]
             /\ UNCHANGED <<now, steamValidator, redisQueueClient, existsDownstream, calls>>

-----------------------------------------------------------------------------
(* The local queue with its health gate, at one moment of the clock: the   *)
(* queue file starts empty; the cooldown file is empty or holds, from an    *)
(* earlier run, a cooldown of "friends" whose deadline is reached and       *)
(* cooldowns of the six other endpoints that are still running             *)

InitialCooldowns ==
    {EmptyDoc,
     [e \in AllEndpoints |->
        RecordFixed("timeout", IF e = "friends" THEN 0 ELSE MinuteMs)]}

Wirings == {<<TRUE, TRUE>>, <<FALSE, TRUE>>, <<FALSE, FALSE>>}

InitQueue ==
    /\ now = MinuteMs
    /\ backoffSequence = ValidatedSequence(<<1, 2, 4>>)
    /\ cooldowns \in InitialCooldowns
    /\ cooldownFile = cooldowns
    /\ backoffLevels = LevelsFromFile(cooldownFile)
    /\ count429 = NoHistory
    /\ expired429 = NoExpiry
    /\ writeFailures = 0
    /\ \E w \in Wirings : steamValidator = w[1] /\ redisQueueClient = w[2]
    /\ queueFile = << >>
    /\ queueFileState = "ok"
    /\ existsDownstream = {"B"}
    /\ calls = NoCalls
    /\ lastOp = [op |-> "init"]

NextQueue ==
    \/ \E item \in ClaimableItems, useProbe, probeOk, w \in BOOLEAN :
          AddProfile(item, useProbe, probeOk, w)
    \/ \E id \in Ids, c \in UpdatedChecks, s \in Statuses, w \in BOOLEAN :
          UpdateProfileCheck(id, c, s, w)
    \/ \E id \in Ids, w \in BOOLEAN : RemoveProfileFromQueue(id, w, TRUE)
    \/ \E w \in BOOLEAN : ConvertDeferredChecksToToCheck(w)
    \/ \E t \in BOOLEAN : CheckHealth(t, TRUE)
    \/ \E items \in Batches, t \in BOOLEAN :
          \E failed \in SUBSET (1..Len(items)) : PullFromRedisQueue(items, failed, t, TRUE)
    \/ MarkEndpointCooldown("friends", "timeout", TRUE)

SpecQueue == InitQueue /\ [][NextQueue]_vars

-----------------------------------------------------------------------------
(* The check store on its own: no validator is wired, the queue file holds  *)
(* up to two profiles an earlier run left with every check but "friends"    *)
(* passed                                                                   *)

\* getNextProcessableProfile: if (pulledCount > 0) return
\* this.getNextProcessableProfile()
ReentersAlways(pulledCount) == TRUE
Reenters(pulledCount) == pulledCount > 0

\* getNextProcessableProfile() entered with profiles read from the file:
\* with an empty array and a queue client it pulls PullCount items and, when
\* the pull reports an added profile, enters itself again on the file the
\* pull left. healthy is what isHealthyToClaimWork answers on an empty file,
\* items what claimItems answers when asked, failed the positions of the
\* items whose write fails; cut tells that more than MaxReentry re-entries
\* were needed.
RECURSIVE NextProcessableRun(_, _, _, _, _, _)
NextProcessableRun(profiles, healthy, items, failed, t, depth) ==
    IF Len(profiles) = 0 /\ redisQueueClient
    THEN IF depth > MaxReentry
         THEN [profiles |-> profiles, ret |-> 0, pulls |-> 0, requested |-> << >>,
               reentries |-> 0, added |-> 0, wrote |-> FALSE, cut |-> TRUE]
         ELSE LET r == PullLoop(profiles, items, failed, t, 1)
                  pulledCount == IF healthy THEN r.added ELSE 0
                  wrote == healthy /\ Wrote(r.outcomes)
                  after == IF wrote THEN r.profiles ELSE profiles
                  requested == IF healthy THEN <<PullCount>> ELSE << >>
              IN  IF Reenters(pulledCount)
                  THEN LET rest == NextProcessableRun(after, healthy, items, failed,
                                                      t, depth + 1)
                       IN  [profiles |-> rest.profiles, ret |-> rest.ret,
                            pulls |-> rest.pulls + 1,
                            requested |-> requested \o rest.requested,
                            reentries |-> rest.reentries + 1,
                            added |-> rest.added + pulledCount,
                            wrote |-> rest.wrote \/ wrote, cut |-> rest.cut]
                  ELSE [profiles |-> after, ret |-> 0, pulls |-> 1,
                        requested |-> requested, reentries |-> 0,
                        added |-> pulledCount, wrote |-> wrote, cut |-> FALSE]
    ELSE [profiles |-> profiles, ret |-> NextProcessableIndex(profiles), pulls |-> 0,
          requested |-> << >>, reentries |-> 0, added |-> 0, wrote |-> FALSE,
          cut |-> FALSE]

\* getNextProcessableProfile(): ret is the position in the file of the
\* profile returned, 0 for null
GetNextProcessableProfile(items, failed, statusThrows, cdWriteOk) ==
    LET healthy == IsHealthyToClaimWork(GetQueuedProfilesSync, steamValidator,
                                        statusThrows, GetCooldownStatus(cooldowns, now))
        run == NextProcessableRun(ReadQueueProfiles, healthy, items, failed, now, 0)
    IN  /\ IF run.pulls > 0
           THEN HealthCheckEffect(statusThrows, cdWriteOk)
           ELSE UNCHANGED cooldownVars
        /\ queueFile' = (IF run.wrote THEN run.profiles ELSE queueFile)
        /\ queueFileState' = StateAfterWrite(run.wrote)
        /\ lastOp' = [op |-> "next", pulled |-> run.pulls > 0, ret |-> run.ret,
                      pulls |-> run.pulls, requested |-> run.requested,
                      reentries |-> run.reentries, added |-> run.added,
                      cut |-> run.cut]
        /\ UNCHANGED <<now, steamValidator, redisQueueClient, existsDownstream, calls>>

\* a profile of an earlier run
StoredProfile(steamId, friends) ==
    [steam_id |-> steamId,
     username |-> "Professor",
     timestamp |-> 0,
     checks |-> [c \in CheckNames |-> IF c = "friends" THEN friends ELSE "passed"]]

InitialStores ==
    {<< >>}
    \cup {<<StoredProfile(a, f)>> : a \in Ids, f \in validStatuses}
    \cup {s \in {<<StoredProfile(a, f), StoredProfile(b, g)>> :
                    a \in Ids, b \in Ids, f \in validStatuses, g \in validStatuses} :
             s[1].steam_id # s[2].steam_id}

\* the check names and statuses updateProfileCheck is called with
UpdateRequests ==
    ({"friends"} \X Statuses) \cup ({"nickname"} \X {"passed", "bogus"})

\* what claimItems answers to the refill of an empty file
RefillBatches ==
    {<< >>, <<[id |-> "A", username |-> "alice"]>>,
     <<[id |-> "A", username |-> "alice"], [id |-> "B", username |-> ""]>>}

InitStore ==
    /\ now = MinuteMs
    /\ backoffSequence = ValidatedSequence(<<1, 2, 4>>)
    /\ cooldowns = EmptyDoc
    /\ cooldownFile = EmptyDoc
    /\ backoffLevels = EmptyDoc
    /\ count429 = NoHistory
    /\ expired429 = NoExpiry
    /\ writeFailures = 0
    /\ steamValidator = FALSE
    /\ redisQueueClient \in BOOLEAN
    /\ queueFile \in InitialStores
    /\ queueFileState = "ok"
    /\ existsDownstream = {"B"}
    /\ calls = NoCalls
    /\ lastOp = [op |-> "init"]

NextStore ==
    \/ \E item \in ClaimableItems, useProbe, probeOk, w \in BOOLEAN :
          AddProfile(item, useProbe, probeOk, w)
    \/ \E id \in Ids, u \in UpdateRequests, w \in BOOLEAN :
          UpdateProfileCheck(id, u[1], u[2], w)
    \/ \E id \in Ids, w, completeOk \in BOOLEAN : RemoveProfileFromQueue(id, w, completeOk)
    \/ \E w \in BOOLEAN : ConvertDeferredChecksToToCheck(w)
    \/ \E items \in RefillBatches :
          \E failed \in SUBSET (1..Len(items)) :
            GetNextProcessableProfile(items, failed, FALSE, TRUE)

SpecStore == InitStore /\ [][NextStore]_vars

-----------------------------------------------------------------------------
(* The check store whose file is deleted or damaged while the program runs *)

\* the file is removed: fs.readFile fails in both reads
DeleteFile ==
    /\ queueFileState' = "missing"
    /\ lastOp' = [op |-> "delete"]
    /\ UNCHANGED <<now, cooldownVars, steamValidator, redisQueueClient, queueFile,
                   existsDownstream, calls>>

\* the file no longer holds a JSON array: JSON.parse fails or Array.isArray
\* is false in both reads
CorruptFile ==
    /\ queueFileState' = "malformed"
    /\ lastOp' = [op |-> "corrupt"]
    /\ UNCHANGED <<now, cooldownVars, steamValidator, redisQueueClient, queueFile,
                   existsDownstream, calls>>

\* getQueuedProfiles(): ret is the array returned, threw tells an exception
\* left the call
GetQueuedProfiles ==
    /\ lastOp' = [op |-> "read", ret |-> ReadQueueProfiles, threw |-> FALSE]
    /\ UNCHANGED <<now, cooldownVars, queueVars>>

NextFile ==
    \/ DeleteFile
    \/ CorruptFile
    \/ GetQueuedProfiles
    \/ CheckHealth(FALSE, TRUE)
    \/ \E item \in ClaimableItems, w \in BOOLEAN : AddProfile(item, FALSE, FALSE, w)
    \/ \E id \in Ids, s \in {"passed", "deferred"} : UpdateProfileCheck(id, "friends", s, TRUE)

SpecFile == InitStore /\ [][NextFile]_vars

-----------------------------------------------------------------------------
(* The sweep of the deferred checks over profiles with up to two deferred   *)
(* checks each                                                              *)

SweptChecks == {"friends", "steam_level"}

NextSweep ==
    \/ \E id \in Ids, c \in SweptChecks, s \in {"deferred", "failed"} :
          UpdateProfileCheck(id, c, s, TRUE)
    \/ \E w \in BOOLEAN : ConvertDeferredChecksToToCheck(w)

SpecSweep == InitStore /\ [][NextSweep]_vars

-----------------------------------------------------------------------------
(* Calls of the check store that overlap: every call reads the whole file  *)
(* at its first await and writes the whole file at its second; the calls of *)
(* other callers may run between the two                                    *)

\* updateProfileCheck up to the await of writeQueueProfiles: the file is
\* read, the profile found, the status validated and the check set in the
\* array that was read
UpdateRead(p, steamId, checkName, status) ==
    LET profiles == ReadQueueProfiles
        i == FindIndex(profiles, steamId)
        call == [op |-> "update", id |-> steamId, check |-> checkName,
                 status |-> status]
    IN  /\ calls[p].pc = "idle"
        /\ calls' = [calls EXCEPT ![p] =
              IF i # 0 /\ status \in validStatuses
              THEN [pc |-> "write", call |-> call,
                    profiles |-> [profiles EXCEPT ![i].checks = Put(@, checkName, status)]]
              ELSE [pc |-> "done", call |-> call, ret |-> FALSE]]
        /\ lastOp' = [op |-> "updateRead", caller |-> p]
        /\ UNCHANGED <<now, cooldownVars, steamValidator, redisQueueClient, queueFile,
                       queueFileState, existsDownstream>>

\* updateProfileCheck from the write on: the array is written and the call
\* returns what the write returned
UpdateWrite(p, writeOk) ==
    /\ calls[p].pc = "write" /\ calls[p].call.op = "update"
    /\ queueFile' = (IF writeOk THEN calls[p].profiles ELSE queueFile)
    /\ queueFileState' = StateAfterWrite(writeOk)
    /\ calls' = [calls EXCEPT ![p] = [pc |-> "done", call |-> calls[p].call,
                                      ret |-> writeOk]]
    /\ lastOp' = [op |-> "updateWrite", caller |-> p, ret |-> writeOk]
    /\ UNCHANGED <<now, cooldownVars, steamValidator, redisQueueClient,
                   existsDownstream>>

\* removeProfileFromQueue up to the await of writeQueueProfiles
RemoveRead(p, steamId) ==
    LET profiles == ReadQueueProfiles
        call == [op |-> "remove", id |-> steamId]
    IN  /\ calls[p].pc = "idle"
        /\ calls' = [calls EXCEPT ![p] =
              IF Len(FilteredProfiles(profiles, steamId)) < Len(profiles)
              THEN [pc |-> "write", call |-> call,
                    profiles |-> FilteredProfiles(profiles, steamId)]
              ELSE [pc |-> "done", call |-> call, ret |-> FALSE]]
        /\ lastOp' = [op |-> "removeRead", caller |-> p, completed |-> << >>]
        /\ UNCHANGED <<now, cooldownVars, steamValidator, redisQueueClient, queueFile,
                       queueFileState, existsDownstream>>

\* removeProfileFromQueue from the write on: after a write that succeeded
\* completeItems is called and the call returns true
RemoveWrite(p, writeOk) ==
    /\ calls[p].pc = "write" /\ calls[p].call.op = "remove"
    /\ queueFile' = (IF writeOk THEN calls[p].profiles ELSE queueFile)
    /\ queueFileState' = StateAfterWrite(writeOk)
    /\ calls' = [calls EXCEPT ![p] = [pc |-> "done", call |-> calls[p].call,
                                      ret |-> writeOk]]
    /\ lastOp' = [op |-> "removeWrite", caller |-> p, ret |-> writeOk,
                  completed |-> CompletedItems(calls[p].call.id, writeOk,
                                               redisQueueClient)]
    /\ UNCHANGED <<now, cooldownVars, steamValidator, redisQueueClient,
                   existsDownstream>>

\* convertDeferredChecksToToCheck up to the await of writeQueueProfiles
ConvertRead(p) ==
    LET profiles == ReadQueueProfiles
        call == [op |-> "convert", conversions |-> ConversionsCount(profiles)]
    IN  /\ calls[p].pc = "idle"
        /\ calls' = [calls EXCEPT ![p] =
              IF ConversionsCount(profiles) > 0
              THEN [pc |-> "write", call |-> call,
                    profiles |-> ConvertedProfiles(profiles)]
              ELSE [pc |-> "done", call |-> call, ret |-> 0]]
        /\ lastOp' = [op |-> "convertRead", caller |-> p]
        /\ UNCHANGED <<now, cooldownVars, steamValidator, redisQueueClient, queueFile,
                       queueFileState, existsDownstream>>

\* convertDeferredChecksToToCheck from the write on; ret is conversions
ConvertWrite(p, writeOk) ==
    /\ calls[p].pc = "write" /\ calls[p].call.op = "convert"
    /\ queueFile' = (IF writeOk THEN calls[p].profiles ELSE queueFile)
    /\ queueFileState' = StateAfterWrite(writeOk)
    /\ calls' = [calls EXCEPT ![p] =
          [pc |-> "done", call |-> calls[p].call,
           ret |-> IF writeOk THEN calls[p].call.conversions ELSE 0]]
    /\ lastOp' = [op |-> "convertWrite", caller |-> p, ret |-> writeOk]
    /\ UNCHANGED <<now, cooldownVars, steamValidator, redisQueueClient,
                   existsDownstream>>

\* the updates the driver and the external source make
OverlappingUpdates ==
    {<<"friends", "passed">>, <<"friends", "failed">>, <<"steam_level", "failed">>}

\* the files the overlapping calls start from
OverlapStores ==
    {<<StoredProfile("A", "to_check")>>,
     <<StoredProfile("A", "deferred"), StoredProfile("B", "to_check")>>}

InitOverlap ==
    /\ InitStore
    /\ redisQueueClient
    /\ queueFile \in OverlapStores

NextOverlap ==
    \/ \E p \in {"driver", "external"}, id \in Ids, u \in OverlappingUpdates :
          UpdateRead(p, id, u[1], u[2])
    \/ \E p \in {"driver", "external"}, w \in BOOLEAN : UpdateWrite(p, w)
    \/ \E id \in Ids : RemoveRead("remover", id)
    \/ \E w \in BOOLEAN : RemoveWrite("remover", w)
    \/ ConvertRead("sweeper")
    \/ \E w \in BOOLEAN : ConvertWrite("sweeper", w)

SpecOverlap == InitOverlap /\ [][NextOverlap]_vars

-----------------------------------------------------------------------------
(* The selection of the next profile with the refill of an empty file, the *)
(* health gate wired or not                                                 *)

NextSelect ==
    \/ \E items \in Batches, t \in BOOLEAN :
          \E failed \in SUBSET (1..Len(items)) :
            GetNextProcessableProfile(items, failed, t, TRUE)
    \/ \E id \in Ids, w \in BOOLEAN : RemoveProfileFromQueue(id, w, TRUE)
    \/ \E id \in Ids, s \in {"deferred", "passed"} :
          UpdateProfileCheck(id, "friends", s, TRUE)
    \/ MarkEndpointCooldown("friends", "timeout", TRUE)

SpecSelect == InitQueue /\ [][NextSelect]_vars

-----------------------------------------------------------------------------
(* Claims about the cooldown controller *)

LastIndex == Len(backoffSequence) - 1

Marked429 == lastOp.op = "mark" /\ lastOp.type = "429"

CleanupOps == {"cleanup", "inCooldown", "status"}

\* C1: after k 429 marks of an endpoint that had no backoff level, with no
\* reset or restart in between, its level is min(k - 1, last index), in the
\* table and in the record, and the deadline is now + sequence[level] minutes;
\* the first 429 gives level 0.
C1_LevelIsMarksMinusOne ==
    \A e \in Endpoints :
      count429[e] >= 1 =>
        /\ e \in DOMAIN backoffLevels
        /\ backoffLevels[e] = Min(count429[e] - 1, LastIndex)
        /\ (Marked429 /\ lastOp.e = e) =>
             /\ cooldowns[e].backoff_level = backoffLevels[e]
             /\ cooldowns[e].cooldown_until
                  = now + backoffSequence[backoffLevels[e] + 1] * 60 * 1000

\* C2: a 429 that follows the expiry and cleanup of a 429 cooldown of level p
\* sets the level to min(p + 1, last index); cleanup, on its own or through
\* isEndpointInCooldown or getConnectionStatus, never changes the level table.
C2_EscalationAcrossExpiry ==
    [][/\ (lastOp'.op = "mark" /\ lastOp'.type = "429" /\ expired429[lastOp'.e] >= 0)
            => backoffLevels'[lastOp'.e] = Min(expired429[lastOp'.e] + 1, LastIndex)
       /\ lastOp'.op \in CleanupOps => backoffLevels' = backoffLevels]_vars

C2_Witness ==
    /\ Marked429
    /\ lastOp.expired = 1
    /\ backoffLevels[lastOp.e] = 2
    /\ LastIndex = 2

\* C3: within one process lifetime an entry of the level table is removed or
\* lowered only by resetBackoffOnSuccess of that endpoint.
C3_LevelClearedOnlyBySuccess ==
    [][\A e \in DOMAIN backoffLevels :
         (e \notin DOMAIN backoffLevels' \/ backoffLevels'[e] < backoffLevels[e])
           => \/ lastOp'.op = "reset" /\ lastOp'.e = e
              \/ lastOp'.op = "restart"]_vars

C3_Witness ==
    /\ lastOp.op = "cleanup"
    /\ lastOp.ret > 0
    /\ \E e \in DOMAIN backoffLevels : e \notin DOMAIN cooldowns /\ backoffLevels[e] >= 1

\* C4 as claimed: every level of the table at the stop is in the table rebuilt
\* at startup (stated for the runs in which no write of the file has failed).
C4_EveryLevelSurvivesRestart ==
    (lastOp.op = "restart" /\ writeFailures = 0) =>
      \A e \in DOMAIN lastOp.levelsBefore :
        e \in DOMAIN backoffLevels /\ backoffLevels[e] = lastOp.levelsBefore[e]

\* C4 amended: the level survives the restart through the persisted 429
\* record only.  An endpoint with a level at the stop is in the rebuilt table,
\* with the level of its 429 record on disk, iff the file holds a 429 record
\* for it; that level is the level at the stop when no write has failed.
C4_LevelSurvivesThroughRecord ==
    lastOp.op = "restart" =>
      /\ \A e \in DOMAIN lastOp.levelsBefore :
           IF e \in DOMAIN cooldownFile /\ cooldownFile[e].reason = "429"
           THEN /\ e \in DOMAIN backoffLevels
                /\ backoffLevels[e] = cooldownFile[e].backoff_level
                /\ writeFailures = 0 => backoffLevels[e] = lastOp.levelsBefore[e]
           ELSE e \notin DOMAIN backoffLevels
      /\ \A e \in DOMAIN backoffLevels :
           e \in DOMAIN cooldownFile /\ cooldownFile[e].reason = "429"

C4_Witness ==
    /\ lastOp.op = "restart"
    /\ \E e \in DOMAIN lastOp.levelsBefore :
         /\ e \in DOMAIN backoffLevels
         /\ backoffLevels[e] = lastOp.levelsBefore[e]
         /\ backoffLevels[e] = 2

C6_ResetClearsOnly429 ==
    [][/\ lastOp'.op = "reset" =>
            LET e == lastOp'.e
            IN  /\ e \notin DOMAIN backoffLevels'
                /\ DOMAIN backoffLevels' = DOMAIN backoffLevels \ {e}
                /\ \A x \in DOMAIN backoffLevels' : backoffLevels'[x] = backoffLevels[x]
                /\ IF e \in DOMAIN cooldowns /\ cooldowns[e].reason = "429"
                   THEN /\ DOMAIN cooldowns' = DOMAIN cooldowns \ {e}
                        /\ lastOp'.writeOk => e \notin DOMAIN cooldownFile'
                   ELSE /\ DOMAIN cooldowns' = DOMAIN cooldowns
                        /\ cooldownFile' = cooldownFile
                /\ \A x \in DOMAIN cooldowns' : cooldowns'[x] = cooldowns[x]
       /\ \A x \in DOMAIN cooldowns :
            (cooldowns[x].reason # "429" /\ x \notin DOMAIN cooldowns')
              => \/ lastOp'.op \in CleanupOps /\ cooldowns[x].cooldown_until <= now
                 \/ lastOp'.op = "restart"]_vars

C6_Witness ==
    /\ lastOp.op = "reset"
    /\ lastOp.had
    /\ lastOp.e \in DOMAIN cooldowns
    /\ cooldowns[lastOp.e].reason = "timeout"
    /\ \E x \in DOMAIN cooldowns : x # lastOp.e /\ cooldowns[x].reason = "429"

-----------------------------------------------------------------------------
(* Claims about the claim protocol *)

NoDeferredCheck ==
    \A i \in 1..Len(queueFile) :
      \A c \in DOMAIN queueFile[i].checks : queueFile[i].checks[c] # "deferred"

ActiveCooldown(e) == e \in DOMAIN cooldowns /\ cooldowns[e].cooldown_until > now

GateOpen ==
    /\ NoDeferredCheck
    /\ steamValidator => \E e \in AllEndpoints : ~ActiveCooldown(e)

Range(seq) == {seq[i] : i \in 1..Len(seq)}

\* C7: a pull invokes claimItems only if, at that moment, no profile of the
\* store has a deferred check and (with a validator wired) some endpoint is
\* available; when either fails, or the status query raises, the pull returns
\* 0, claims nothing, releases nothing and leaves the store as it is.
C7_HealthGate ==
    [][lastOp'.op = "pull" =>
         /\ lastOp'.claimed => (redisQueueClient /\ GateOpen /\ ~lastOp'.threw)
         /\ (~GateOpen \/ lastOp'.threw) =>
              /\ ~lastOp'.claimed
              /\ lastOp'.ret = 0
              /\ lastOp'.released = << >>
              /\ queueFile' = queueFile]_vars

C7_Witness ==
    /\ lastOp.op = "pull"
    /\ redisQueueClient
    /\ ~lastOp.claimed
    /\ ~lastOp.threw
    /\ ~NoDeferredCheck
    /\ \E e \in AllEndpoints : ~ActiveCooldown(e)

\* C8: isHealthyToClaimWork returns true exactly when no profile of the store
\* has a deferred check and, with a validator wired, one of the seven
\* endpoints has no running cooldown (the status query having returned; it
\* returns false when the query raises).
C8_HealthyIffGateOpen ==
    [][lastOp'.op = "isHealthy" =>
         /\ ~lastOp'.threw => (lastOp'.ret <=> GateOpen)
         /\ lastOp'.threw => ~lastOp'.ret]_vars

C8_Witness ==
    /\ lastOp.op = "isHealthy"
    /\ ~lastOp.ret
    /\ ~lastOp.threw
    /\ steamValidator
    /\ NoDeferredCheck
    /\ \A e \in AllEndpoints : ActiveCooldown(e)

\* C9: a claimed item whose id addProfileToQueue finds in the store is
\* released and is not counted as added.
C9_DuplicateReleased ==
    lastOp.op = "pull" =>
      /\ \A i \in 1..Len(lastOp.items) :
           lastOp.outcomes[i] = "existing" => lastOp.items[i].id \in Range(lastOp.released)
      /\ lastOp.ret <= Cardinality({i \in 1..Len(lastOp.items) :
                                      lastOp.outcomes[i] # "existing"})

\* C10: a claimed item that is not in the store and whose existence probe
\* answers {success, exists} is not inserted and is released.
C10_ProbeSuppressesInsert ==
    lastOp.op = "pull" =>
      \A i \in 1..Len(lastOp.items) :
        (lastOp.items[i].id \in existsDownstream /\ lastOp.outcomes[i] # "existing")
          => /\ FindIndex(queueFile, lastOp.items[i].id) = 0
             /\ lastOp.items[i].id \in Range(lastOp.released)

-----------------------------------------------------------------------------
(* Claims about the check store *)

\* the k-th position, in increasing order, of a set of positions
KthOf(S, k) == CHOOSE i \in S : Cardinality({j \in S : j <= i}) = k

\* C11: when the write of the queue file fails in addProfileToQueue, it
\* raises and the file is unchanged; a pull releases exactly the items whose
\* add raised, one releaseItems([item.id]) each and in their order, does not
\* count them as added, and goes on with the items that follow.
C11_WriteFailureReleasesItem ==
    [][/\ (lastOp'.op = "add" /\ lastOp'.writeFailed)
            => (lastOp'.ret = "throw" /\ queueFile' = queueFile)
       /\ (lastOp'.op = "pull" /\ lastOp'.claimed) =>
            LET items == lastOp'.items
                thrown == lastOp'.failedAt
            IN  /\ Len(lastOp'.outcomes) = Len(items)
                /\ \A i \in 1..Len(items) :
                     IF i \in thrown
                     THEN lastOp'.outcomes[i] = "throw"
                     ELSE lastOp'.outcomes[i] \in {"profile", "existing"}
                /\ Len(lastOp'.released) = Cardinality(thrown)
                /\ \A k \in 1..Len(lastOp'.released) :
                     lastOp'.released[k] = items[KthOf(thrown, k)].id
                /\ lastOp'.ret <= Len(items) - Cardinality(thrown)
                /\ Len(queueFile') = Len(queueFile)
                     + Cardinality({i \in 1..Len(items) :
                                      lastOp'.outcomes[i] = "profile"})]_vars

C11_Witness ==
    /\ lastOp.op = "pull"
    /\ lastOp.claimed
    /\ Len(lastOp.items) = 2
    /\ lastOp.failedAt = {1}
    /\ lastOp.outcomes = <<"throw", "profile">>
    /\ lastOp.released = <<lastOp.items[1].id>>
    /\ lastOp.ret = 1
    /\ FindIndex(queueFile, lastOp.items[1].id) = 0
    /\ FindIndex(queueFile, lastOp.items[2].id) # 0

\* C12: addProfileToQueue for an id that is not in the file: when the probe
\* answers {success, exists} nothing is inserted; when it answers without
\* success, or that the id does not exist, or no probe is given, the write
\* having succeeded, exactly one profile with that id and the seven checks
\* at to_check is appended at the end.  The probe is not called when the id
\* is in the file.
C12_ProbeDecidesInsert ==
    [][lastOp'.op = "add" =>
         IF FindIndex(queueFile, lastOp'.id) # 0
         THEN ~lastOp'.probed
         ELSE IF lastOp'.probe = "exists"
         THEN lastOp'.probed /\ lastOp'.ret = "null" /\ queueFile' = queueFile
         ELSE /\ lastOp'.probed <=> lastOp'.probe \in {"failed", "absent"}
              /\ ~lastOp'.writeFailed =>
                   /\ lastOp'.ret = "profile"
                   /\ Len(queueFile') = Len(queueFile) + 1
                   /\ SubSeq(queueFile', 1, Len(queueFile)) = queueFile
                   /\ queueFile'[Len(queueFile')].steam_id = lastOp'.id
                   /\ queueFile'[Len(queueFile')].checks
                        = [c \in CheckNames |-> "to_check"]]_vars

C12_Witness ==
    /\ lastOp.op = "add"
    /\ lastOp.probe = "failed"
    /\ lastOp.probed
    /\ lastOp.ret = "profile"
    /\ Len(queueFile) = 2
    /\ queueFile[2].steam_id = lastOp.id
    /\ queueFile[1].steam_id # lastOp.id


UniqueIds(profiles) ==
    \A i, j \in 1..Len(profiles) :
      profiles[i].steam_id = profiles[j].steam_id => i = j

\* C13: through every addProfileToQueue, updateProfileCheck,
\* removeProfileFromQueue, convertDeferredChecksToToCheck and pull, the file
\* holds at most one profile per steam_id; addProfileToQueue with an id that
\* is in the file returns the profile found and changes nothing.
C13_ProfileUniqueness ==
    [][/\ UniqueIds(queueFile) /\ UniqueIds(queueFile')
       /\ (lastOp'.op = "add" /\ FindIndex(queueFile, lastOp'.id) # 0)
            => (lastOp'.ret = "existing" /\ queueFile' = queueFile)]_vars

C13_Witness ==
    /\ lastOp.op = "add"
    /\ lastOp.ret = "existing"
    /\ Len(queueFile) = 2
    /\ queueFile[FindIndex(queueFile, lastOp.id)].checks["friends"] = "passed"
    /\ queueFile[FindIndex(queueFile, lastOp.id)].timestamp = now


\* C14: every profile of the file has exactly the seven check names as the
\* keys of its checks, and every value is one of the four statuses.
C14_ChecksComplete ==
    \A i \in 1..Len(queueFile) :
      /\ DOMAIN queueFile[i].checks = CheckNames
      /\ \A c \in DOMAIN queueFile[i].checks : queueFile[i].checks[c] \in validStatuses


\* C15: updateProfileCheck returns true only when the profile is in the file,
\* the check name is one of the profile's checks and the status is valid, and
\* then that one check of that one profile is all that changes; when the
\* profile is missing, the check name is not found, the status is invalid or
\* the write fails, it returns false and the file is unchanged.
C15_UpdateContract ==
    [][lastOp'.op = "update" =>
         LET i == FindIndex(queueFile, lastOp'.id)
             known == i # 0 /\ lastOp'.check \in DOMAIN queueFile[i].checks
             valid == lastOp'.status \in validStatuses
         IN  /\ lastOp'.ret =>
                  /\ known
                  /\ valid
                  /\ queueFile' = [queueFile EXCEPT
                                     ![i].checks[lastOp'.check] = lastOp'.status]
             /\ (~known \/ ~valid \/ lastOp'.writeFailed) =>
                  (~lastOp'.ret /\ queueFile' = queueFile)]_vars


\* C16 as claimed: after any removeProfileFromQueue(id) that has returned the
\* file holds no profile with that id and, with a queue client wired,
\* completeItems([id]) was invoked.
C16_RemovedAfterAnyReturn ==
    lastOp.op = "remove" =>
      /\ FindIndex(queueFile, lastOp.id) = 0
      /\ redisQueueClient => lastOp.completed = <<lastOp.id>>

\* C16 amended: removeProfileFromQueue(id) returns true exactly when the
\* profile was in the file and the write succeeded; then the file is the old
\* one without that profile, the others unchanged and in order, and with a
\* queue client wired completeItems([id]) was invoked once, whose failure
\* changes nothing.  When it returns false the file is unchanged and
\* completeItems was not invoked: the profile was not there, or the write
\* failed and the profile is still there.
C16_RemovedWhenTrue ==
    [][lastOp'.op = "remove" =>
         LET id == lastOp'.id
             i == FindIndex(queueFile, id)
         IN  /\ lastOp'.ret <=> (i # 0 /\ ~lastOp'.writeFailed)
             /\ lastOp'.ret =>
                  /\ queueFile' = SubSeq(queueFile, 1, i - 1)
                                    \o SubSeq(queueFile, i + 1, Len(queueFile))
                  /\ FindIndex(queueFile', id) = 0
                  /\ lastOp'.completed = IF redisQueueClient THEN <<id>> ELSE << >>
             /\ ~lastOp'.ret =>
                  /\ queueFile' = queueFile
                  /\ lastOp'.completed = << >>
                  /\ lastOp'.writeFailed <=> FindIndex(queueFile', id) # 0]_vars

C16_Witness ==
    /\ lastOp.op = "remove"
    /\ lastOp.ret
    /\ redisQueueClient
    /\ lastOp.completed = <<lastOp.id>>
    /\ ~lastOp.completeOk
    /\ Len(queueFile) = 1
    /\ FindIndex(queueFile, lastOp.id) = 0


Processable(profile) ==
    \/ \E c \in DOMAIN profile.checks : profile.checks[c] = "to_check"
    \/ \A c \in DOMAIN profile.checks : profile.checks[c] \in {"passed", "failed"}

\* C17: on a non-empty file getNextProcessableProfile returns the first
\* profile, in the order of the file, that has a to_check check or has every
\* check passed or failed; if there is none, the first profile of the file
\* with a deferred check; the answer is a function of the file alone.
C17_FirstProcessable ==
    [][(lastOp'.op = "next" /\ Len(queueFile) > 0) =>
         LET r == lastOp'.ret
             ready == {i \in 1..Len(queueFile) : Processable(queueFile[i])}
         IN  /\ queueFile' = queueFile
             /\ ~lastOp'.pulled
             /\ r \in 1..Len(queueFile)
             /\ IF ready # {}
                THEN r \in ready /\ \A j \in ready : r <= j
                ELSE LET waiting == {i \in 1..Len(queueFile) :
                                       \E c \in DOMAIN queueFile[i].checks :
                                         queueFile[i].checks[c] = "deferred"}
                     IN  r \in waiting /\ \A j \in waiting : r <= j]_vars

C17_Witness ==
    /\ lastOp.op = "next"
    /\ ~lastOp.pulled
    /\ lastOp.ret = 2
    /\ Len(queueFile) = 2
    /\ queueFile[1].checks["friends"] = "deferred"
    /\ ~Processable(queueFile[1])
    /\ \A c \in DOMAIN queueFile[2].checks : queueFile[2].checks[c] \in {"passed", "failed"}


\* C18 as claimed: after any convertDeferredChecksToToCheck() that has
\* returned, no profile of the file has a deferred check.
C18_NoDeferredAfterConvert ==
    lastOp.op = "convert" => NoDeferredCheck

\* C18 amended: after convertDeferredChecksToToCheck() whose write did not
\* fail, no profile of the file has a deferred check, every check that was
\* deferred is to_check, nothing else has changed and the deferred test of
\* isHealthyToClaimWork passes; when the write fails it returns zero counts
\* and the file, with its deferred checks, is unchanged.
C18_NoDeferredWhenSaved ==
    [][lastOp'.op = "convert" =>
         IF lastOp'.writeFailed
         THEN /\ queueFile' = queueFile
              /\ HasDeferredChecks(queueFile')
              /\ lastOp'.ret = [conversions |-> 0, profilesAffected |-> 0]
         ELSE /\ ~HasDeferredChecks(queueFile')
              /\ IsHealthyToClaimWork(queueFile', FALSE, FALSE, << >>)
              /\ Len(queueFile') = Len(queueFile)
              /\ \A i \in 1..Len(queueFile) :
                   /\ queueFile'[i].steam_id = queueFile[i].steam_id
                   /\ queueFile'[i].username = queueFile[i].username
                   /\ queueFile'[i].timestamp = queueFile[i].timestamp
                   /\ DOMAIN queueFile'[i].checks = DOMAIN queueFile[i].checks
                   /\ \A c \in DOMAIN queueFile[i].checks :
                        queueFile'[i].checks[c] =
                          IF queueFile[i].checks[c] = "deferred" THEN "to_check"
                          ELSE queueFile[i].checks[c]]_vars

C18_Witness ==
    /\ lastOp.op = "convert"
    /\ ~lastOp.writeFailed
    /\ lastOp.ret.conversions = 2
    /\ lastOp.ret.profilesAffected = 2
    /\ Len(queueFile) = 2
    /\ NoDeferredCheck


-----------------------------------------------------------------------------
(* Further claims about the cooldown controller *)

\* C19: one cleanupExpiredCooldowns() deletes exactly the records whose
\* deadline is <= now, keeps the others as they are and returns the number
\* deleted; a second call that follows it directly, the clock not having
\* advanced, deletes nothing, returns 0, does not save, and leaves the
\* records, the file and the level table as the first call left them.
C19_CleanupIdempotent ==
    [][lastOp'.op = "cleanup" =>
         /\ \A e \in DOMAIN cooldowns :
              IF cooldowns[e].cooldown_until <= now
              THEN e \notin DOMAIN cooldowns'
              ELSE e \in DOMAIN cooldowns' /\ cooldowns'[e] = cooldowns[e]
         /\ DOMAIN cooldowns' \subseteq DOMAIN cooldowns
         /\ lastOp'.ret = Cardinality(DOMAIN cooldowns \ DOMAIN cooldowns')
         /\ lastOp.op = "cleanup" =>
              /\ lastOp'.ret = 0
              /\ ~lastOp'.saved
              /\ cooldowns' = cooldowns
              /\ cooldownFile' = cooldownFile
              /\ backoffLevels' = backoffLevels]_vars

C19_Witness ==
    /\ lastOp.op = "cleanup"
    /\ lastOp.prevRet = 1
    /\ lastOp.ret = 0
    /\ \E e \in Endpoints : e \in DOMAIN cooldowns /\ cooldowns[e].cooldown_until > now
    /\ \E e \in Endpoints : e \notin DOMAIN cooldowns /\ e \in DOMAIN backoffLevels


\* C20: markEndpointCooldown(e, errorType) with an errorType other than 429
\* stores for e a record with reason errorType and deadline now + duration,
\* the duration being cooldownDurations.connection_reset for
\* connection_error, .timeout for timeout, .dns_failure for dns_failure and
\* 60000 ms for anything else; the level table and the records of the other
\* endpoints are unchanged.
C20_FixedDurationMark ==
    [][(lastOp'.op = "mark" /\ lastOp'.type # "429") =>
         LET e == lastOp'.e
             duration == CASE lastOp'.type = "connection_error"
                                -> cooldownDurations.connection_reset
                           [] lastOp'.type = "timeout" -> cooldownDurations.timeout
                           [] lastOp'.type = "dns_failure" -> cooldownDurations.dns_failure
                           [] OTHER -> 60000
         IN  /\ DOMAIN cooldowns' = DOMAIN cooldowns \cup {e}
             /\ cooldowns'[e].reason = lastOp'.type
             /\ cooldowns'[e].cooldown_until = now + duration
             /\ cooldownFile' = cooldowns'
             /\ \A x \in DOMAIN cooldowns \ {e} : cooldowns'[x] = cooldowns[x]
             /\ backoffLevels' = backoffLevels]_vars

C20_Witness ==
    /\ lastOp.op = "mark"
    /\ lastOp.type = "connection_error"
    /\ now > 0
    /\ cooldowns[lastOp.e].cooldown_until = now + 2 * MinuteMs
    /\ lastOp.e \in DOMAIN backoffLevels
    /\ \E x \in DOMAIN cooldowns : x # lastOp.e /\ cooldowns[x].reason = "429"


\* C21: handleRequestError marks 429 for an HTTP 429 whatever the message;
\* otherwise dns_failure for a message with ENOTFOUND or EHOSTUNREACH, else
\* timeout for one with timeout or ETIMEDOUT, else connection_error for one
\* with socket disconnected, socket hang up, ECONNRESET, ECONNREFUSED,
\* certificate, SSL or TLS; for any other error, or without connection
\* info, it records nothing and leaves records, file and levels unchanged.
C21_Classification ==
    [][lastOp'.op = "handle" =>
         LET e == lastOp'.info
             m == lastOp'.msg
             kind == IF lastOp'.status429 THEN "429"
                     ELSE CASE "ENOTFOUND" \in m \/ "EHOSTUNREACH" \in m -> "dns_failure"
                            [] "timeout" \in m \/ "ETIMEDOUT" \in m -> "timeout"
                            [] m \cap {"socket disconnected", "socket hang up",
                                       "ECONNRESET", "ECONNREFUSED", "certificate",
                                       "SSL", "TLS"} # {} -> "connection_error"
                            [] OTHER -> "none"
         IN  IF e = "none" \/ kind = "none"
             THEN /\ lastOp'.errorType = "none"
                  /\ lastOp'.ret = "error"
                  /\ cooldowns' = cooldowns
                  /\ cooldownFile' = cooldownFile
                  /\ backoffLevels' = backoffLevels
             ELSE /\ lastOp'.errorType = kind
                  /\ lastOp'.ret = IF kind = "429" THEN "rateLimited" ELSE "connectionError"
                  /\ cooldowns'[e].reason = kind
                  /\ cooldowns'[e].cooldown_until > now
                  /\ kind # "429" => backoffLevels' = backoffLevels
                  /\ kind = "429" => e \in DOMAIN backoffLevels']_vars

C21_Witness ==
    /\ lastOp.op = "handle"
    /\ lastOp.info = "friends"
    /\ ~lastOp.status429
    /\ lastOp.msg = {"ENOTFOUND", "timeout"}
    /\ cooldowns["friends"].reason = "dns_failure"
    /\ "friends" \in DOMAIN backoffLevels


-----------------------------------------------------------------------------
(* Claims about the queue client *)

SuccessResponse(response) ==
    response.net = "ok" /\ response.kind = "object" /\ response.status = 200
      /\ response.success

\* C22: for every answer that is not HTTP 200 with a truthy success field
\* (another status, success false, a body that does not parse, a network
\* error, a timeout) claimItems returns the empty list, completeItems and
\* releaseItems false, getStats null and releaseInstance 0; completeItems and
\* releaseItems return true exactly on a success response.
C22_SafeDefaults ==
    lastOp.op = "client" =>
      /\ ~SuccessResponse(lastOp.response) =>
           lastOp.ret = CASE lastOp.method = "claimItems" -> << >>
                          [] lastOp.method \in {"completeItems", "releaseItems"} -> FALSE
                          [] lastOp.method = "getStats" -> "null"
                          [] lastOp.method = "releaseInstance" -> 0
      /\ lastOp.method \in {"completeItems", "releaseItems"} =>
           (lastOp.ret = TRUE <=> SuccessResponse(lastOp.response))

C22_Witness ==
    /\ lastOp.op = "client"
    /\ lastOp.method = "releaseItems"
    /\ lastOp.response.net = "ok"
    /\ lastOp.response.status = 500
    /\ lastOp.response.success
    /\ lastOp.ret = FALSE


-----------------------------------------------------------------------------
(* Claims about persistence *)

MutatingCooldownOps == {"mark", "reset", "cleanup"}

\* C23 as claimed: whenever markEndpointCooldown, resetBackoffOnSuccess or
\* cleanupExpiredCooldowns has returned, the cooldown file equals the
\* records in memory.
C23_DiskEqualsMemory ==
    lastOp.op \in MutatingCooldownOps => cooldownFile = cooldowns

\* C23 amended: the cooldown file equals the records in memory in every
\* state reached without a failed write of the file, and again after every
\* markEndpointCooldown whose write succeeded; a failed write is swallowed
\* and leaves the file behind the memory.
C23_DiskEqualsMemoryWhenSaved ==
    /\ writeFailures = 0 => cooldownFile = cooldowns
    /\ (lastOp.op = "mark" /\ lastOp.writeOk) => cooldownFile = cooldowns

C23_Witness ==
    /\ lastOp.op = "mark"
    /\ lastOp.writeOk
    /\ writeFailures = 1
    /\ cooldownFile = cooldowns
    /\ cooldowns # EmptyDoc


\* C24: when the write of the cooldown file fails, markEndpointCooldown,
\* resetBackoffOnSuccess and cleanupExpiredCooldowns return normally with
\* the records and the level table in memory updated as with a successful
\* write, the file being left as it was: the endpoint marked is unavailable,
\* a 429 escalates from the level in memory, a reset clears level and 429
\* record, a cleanup drops the expired records.
C24_MemoryUpdatedOnFailedWrite ==
    [][/\ (lastOp'.op = "mark" /\ ~lastOp'.writeOk) =>
            LET e == lastOp'.e
            IN  /\ cooldownFile' = cooldownFile
                /\ cooldowns'[e].reason = lastOp'.type
                /\ ~IsEndpointAvailable(cooldowns', e, now)
                /\ lastOp'.type = "429" =>
                     /\ backoffLevels'[e] = Min(CurrentLevel(backoffLevels, e) + 1, LastIndex)
                     /\ cooldowns'[e].backoff_level = backoffLevels'[e]
                /\ lastOp'.type # "429" => backoffLevels' = backoffLevels
       /\ (lastOp'.op = "reset" /\ ~lastOp'.writeOk) =>
            /\ cooldownFile' = cooldownFile
            /\ lastOp'.e \notin DOMAIN backoffLevels'
            /\ lastOp'.e \notin DOMAIN cooldowns'
            /\ IsEndpointAvailable(cooldowns', lastOp'.e, now)
       /\ (lastOp'.op = "cleanup" /\ ~lastOp'.writeOk) =>
            /\ cooldownFile' = cooldownFile
            /\ lastOp'.ret > 0
            /\ \A e \in DOMAIN cooldowns' : cooldowns'[e].cooldown_until > now
            /\ \A e \in DOMAIN cooldowns \ DOMAIN cooldowns' :
                 cooldowns[e].cooldown_until <= now
            /\ backoffLevels' = backoffLevels]_vars

C24_Witness ==
    /\ lastOp.op = "mark"
    /\ lastOp.type = "429"
    /\ ~lastOp.writeOk
    /\ lastOp.prev = 1
    /\ backoffLevels[lastOp.e] = 2
    /\ cooldowns[lastOp.e].backoff_level = 2
    /\ cooldownFile[lastOp.e].backoff_level = 1


\* C25: while the check-store file is missing or malformed, getQueuedProfiles
\* returns the empty list without raising and the health gate, which reads
\* synchronously, decides as for an empty store without raising; an
\* addProfileToQueue that then succeeds leaves a well-formed file that holds
\* exactly the profile it added
C25_ReadsEmptyAndRecreates ==
    [][queueFileState # "ok" =>
         /\ lastOp'.op = "read" => (lastOp'.ret = << >> /\ ~lastOp'.threw)
         /\ lastOp'.op = "isHealthy" =>
              /\ ~lastOp'.threw
              /\ lastOp'.ret = IsHealthyToClaimWork(<< >>, steamValidator, FALSE,
                                                    GetCooldownStatus(cooldowns, now))
         /\ (lastOp'.op = "add" /\ lastOp'.ret = "profile") =>
              /\ queueFileState' = "ok"
              /\ Len(queueFile') = 1
              /\ queueFile'[1].steam_id = lastOp'.id
              /\ DOMAIN queueFile'[1].checks = CheckNames]_vars

\* the file that held a profile with a deferred check was damaged, and a
\* profile added afterwards is alone in the recreated file
C25_Witness ==
    /\ lastOp.op = "add" /\ lastOp.recreated /\ lastOp.id = "B"
    /\ queueFileState = "ok"
    /\ Len(queueFile) = 1 /\ queueFile[1].steam_id = "B"
\* the number of deferred checks in the file
DeferredChecks(profiles) ==
    Cardinality({<<i, c>> \in (1..Len(profiles)) \X CheckNames :
                   profiles[i].checks[c] = "deferred"})

\* the number of profiles of the file with a deferred check
DeferredProfiles(profiles) ==
    Cardinality({i \in 1..Len(profiles) : HasDeferred(profiles[i])})

\* the sweep changed nothing but deferred statuses
OnlyDeferredChanged ==
    /\ Len(queueFile') = Len(queueFile)
    /\ \A i \in 1..Len(queueFile) :
         /\ queueFile'[i].steam_id = queueFile[i].steam_id
         /\ queueFile'[i].username = queueFile[i].username
         /\ queueFile'[i].timestamp = queueFile[i].timestamp
         /\ \A c \in CheckNames :
              queueFile[i].checks[c] # "deferred"
                => queueFile'[i].checks[c] = queueFile[i].checks[c]

\* C26 as claimed: every convertDeferredChecksToToCheck() returns the number
\* of deferred checks that were in the file as conversions and the number of
\* profiles that had one as profilesAffected, and changes only deferred
\* statuses; a call that directly follows another returns zero counts and
\* does not write.
C26_SweepCounts ==
    [][lastOp'.op = "convert" =>
         /\ lastOp'.ret = [conversions |-> DeferredChecks(queueFile),
                           profilesAffected |-> DeferredProfiles(queueFile)]
         /\ OnlyDeferredChanged
         /\ (lastOp.op = "convert" =>
               /\ lastOp'.ret = [conversions |-> 0, profilesAffected |-> 0]
               /\ queueFile' = queueFile)]_vars

\* C26 amended: a convertDeferredChecksToToCheck() whose write does not fail
\* returns those counts and turns every deferred status, and nothing else,
\* into to_check; one whose write fails returns zero counts and leaves the
\* file as it was; a call that directly follows one whose write did not fail
\* returns zero counts and attempts no write.
C26_SweepCountsWhenSaved ==
    [][lastOp'.op = "convert" =>
         /\ IF lastOp'.writeFailed
            THEN /\ lastOp'.ret = [conversions |-> 0, profilesAffected |-> 0]
                 /\ DeferredChecks(queueFile) > 0
                 /\ queueFile' = queueFile
            ELSE /\ lastOp'.ret = [conversions |-> DeferredChecks(queueFile),
                                   profilesAffected |-> DeferredProfiles(queueFile)]
                 /\ OnlyDeferredChanged
                 /\ DeferredChecks(queueFile') = 0
         /\ lastOp'.second =>
              /\ lastOp'.ret = [conversions |-> 0, profilesAffected |-> 0]
              /\ ~lastOp'.writeFailed
              /\ queueFile' = queueFile]_vars

\* a sweep follows the sweep that converted the steam_level check of two
\* profiles and finds nothing
C26_Witness ==
    /\ lastOp.op = "convert" /\ lastOp.second
    /\ lastOp.ret = [conversions |-> 0, profilesAffected |-> 0]
    /\ Len(queueFile) = 2
    /\ \A i \in 1..2 : queueFile[i].checks["steam_level"] = "to_check"
-----------------------------------------------------------------------------
(* Claims about calls of the check store that overlap *)

\* the file shows the status the update call wrote
Reflected(call) ==
    /\ FindIndex(queueFile, call.id) # 0
    /\ queueFile[FindIndex(queueFile, call.id)].checks[call.check] = call.status

\* C27: when the updateProfileCheck of the driver and the one made through
\* updateProfileCheckExternal have both returned true, no other call having
\* run, the file shows both statuses if they are for different checks or
\* profiles, and the status of the call that wrote last if they are for the
\* same check of the same profile.
C27_NoLostUpdate ==
    (/\ calls["driver"].pc = "done" /\ calls["driver"].ret
     /\ calls["external"].pc = "done" /\ calls["external"].ret
     /\ calls["remover"].pc = "idle" /\ calls["sweeper"].pc = "idle")
      => LET d == calls["driver"].call
             e == calls["external"].call
         IN  IF d.id = e.id /\ d.check = e.check
             THEN Reflected(calls[lastOp.caller].call)
             ELSE Reflected(d) /\ Reflected(e)

\* C28: once removeProfileFromQueue(id) has returned true, and no
\* addProfileToQueue(id) follows, the file holds no profile id, whatever
\* updateProfileCheck or convertDeferredChecksToToCheck was waiting to write
\* when the profile was removed.
C28_RemovedStaysRemoved ==
    (calls["remover"].pc = "done" /\ calls["remover"].ret)
      => FindIndex(ReadQueueProfiles, calls["remover"].call.id) = 0

\* C29: removeProfileFromQueue(id) calls completeItems only with [id] and
\* only after its write of the array without id has succeeded: not when the
\* file it read held no profile id, not when the write failed, and at the
\* call the file holds no profile id, whatever other calls are waiting.
C29_CompleteAfterPersist ==
    [][lastOp'.op \in {"removeRead", "removeWrite"} =>
         LET p == lastOp'.caller
             id == calls'[p].call.id
         IN  /\ lastOp'.op = "removeRead" => lastOp'.completed = << >>
             /\ (lastOp'.op = "removeWrite" /\ ~lastOp'.ret) =>
                  (lastOp'.completed = << >> /\ queueFile' = queueFile)
             /\ lastOp'.completed # << >> =>
                  /\ lastOp'.completed = <<id>>
                  /\ calls[p].pc = "write"
                  /\ calls'[p].ret
                  /\ queueFileState' = "ok"
                  /\ FindIndex(queueFile', id) = 0]_vars

\* A is completed while an update of A that read the file earlier waits to
\* write
C29_Witness ==
    /\ lastOp.op = "removeWrite" /\ lastOp.completed = <<"A">>
    /\ calls["driver"].pc = "write" /\ calls["driver"].call.id = "A"
    /\ FindIndex(queueFile, "A") = 0

-----------------------------------------------------------------------------
(* A further claim about the pull *)

\* C30: when pullFromRedisQueue returns, every item claimItems returned
\* either has a profile in the queue file or was passed to releaseItems, and
\* the number returned is the number of profiles the pull inserted.
C30_NoOrphanedClaim ==
    (lastOp.op = "pull" /\ lastOp.claimed) =>
      /\ \A i \in 1..Len(lastOp.items) :
           \/ FindIndex(ReadQueueProfiles, lastOp.items[i].id) # 0
           \/ lastOp.items[i].id \in Range(lastOp.released)
      /\ lastOp.ret = Cardinality({i \in 1..Len(lastOp.items) :
                                     lastOp.outcomes[i] = "profile"})

-----------------------------------------------------------------------------
(* A claim about the selection with refill *)

\* C31: getNextProcessableProfile() terminates within one re-entry: it pulls
\* only when the file is empty and a queue client is wired, at most once,
\* asking claimItems at most once and for PullCount items; it enters itself
\* again at most once and only when the pull reported an added profile; it
\* returns null when the file was empty and the pull added nothing, and a
\* profile of the file whenever the file is not empty, at the call or after
\* the pull.
C31_SelectTerminates ==
    [][lastOp'.op = "next" =>
         LET empty == Len(ReadQueueProfiles) = 0
         IN  /\ ~lastOp'.cut
             /\ lastOp'.pulls = (IF empty /\ redisQueueClient THEN 1 ELSE 0)
             /\ Len(lastOp'.requested) <= lastOp'.pulls
             /\ \A k \in 1..Len(lastOp'.requested) : lastOp'.requested[k] = PullCount
             /\ lastOp'.reentries = (IF lastOp'.added > 0 THEN 1 ELSE 0)
             /\ (empty /\ lastOp'.added = 0) =>
                  (lastOp'.ret = 0 /\ Len(ReadQueueProfiles') = 0)
             /\ ~empty =>
                  (lastOp'.ret \in 1..Len(queueFile) /\ queueFile' = queueFile)
             /\ Len(ReadQueueProfiles') > 0 => lastOp'.ret \in 1..Len(queueFile')]_vars

\* the file was empty, one pull of two items added both, and the re-entry
\* returned the first
C31_Witness ==
    /\ lastOp.op = "next"
    /\ lastOp.pulls = 1 /\ lastOp.requested = <<PullCount>>
    /\ lastOp.reentries = 1 /\ lastOp.added = 2
    /\ lastOp.ret = 1
    /\ Len(queueFile) = 2

-----------------------------------------------------------------------------
(* A further claim about marking *)

\* C32: markEndpointCooldown(e, errorType) on an endpoint whose cooldown has
\* not expired leaves a deadline that is not earlier than the one it had,
\* and when the record it had was a 429 record whose backoff_level is in the
\* cooldown file, the file still holds a backoff_level for e afterwards.
C32_MarkNeverShortens ==
    [][lastOp'.op = "mark" =>
         LET e == lastOp'.e
         IN  (e \in DOMAIN cooldowns /\ cooldowns[e].cooldown_until > now) =>
               /\ cooldowns'[e].cooldown_until >= cooldowns[e].cooldown_until
               /\ (/\ cooldowns[e].reason = "429"
                   /\ e \in DOMAIN cooldownFile
                   /\ "backoff_level" \in DOMAIN cooldownFile[e])
                    => (/\ e \in DOMAIN cooldownFile'
                        /\ "backoff_level" \in DOMAIN cooldownFile'[e])]_vars

=============================================================================
